---- MODULE Spec2Model ----
(***************************************************************************)
(* A model of hospinet's TemporalNetwork (src/hospinet/temporal_network.py), *)
(* of the snapshot / time-series engine                                    *)
(* (src/tempest/basic_temporal_analysis.py) and of the overlap resolver    *)
(* that src/tempest/cleaner.py calls.                                      *)
(*                                                                         *)
(* A temporal node is a pair <<facility, time>>.  The graph of a network   *)
(* is the pair (nodes, adj): adj maps every edge <<u, v>> to its weight.   *)
(* The two lookup dictionaries are functions with a finite domain; kind    *)
(* says whether they are defaultdict(set) (a missing key is inserted with  *)
(* an empty set when it is read) or plain dict (a missing key raises).     *)
(***************************************************************************)
EXTENDS Integers, Sequences, FiniteSets, TLC

\* ------------------------------------------------------------------ bounds
MaxT == 2        \* stays lie in the days 0..MaxT
MaxStays == 2    \* rows of a stay table
MaxOps == 2      \* state-changing calls made on one network; the builder
                 \* from_presence uses them up
MaxSnaps == 2    \* snapshots in a sequence the caller supplies
MaxRecords == 3  \* records of a table given to the overlap resolver
MaxIters == 2    \* the iteration caps the resolver is called with, besides
                 \* the default

DefaultReturnWindow == 365
DefaultNIters == 100

Facs == {"X", "Y"}
Subjects == {"A", "B"}
Times == 0..MaxT
Steps == {1, 2}
Windows == {0, 1, 2, DefaultReturnWindow}
Weights == {1, 2}
\* what the metric does on one snapshot: it returns value, or it raises an
\* Exception, or it raises a BaseException that is no Exception (SystemExit,
\* KeyboardInterrupt, GeneratorExit)
MetricOutcomes ==
    {[exc |-> "none", value |-> v] : v \in {1, 2}}
        \cup {[exc |-> e, value |-> 0] : e \in {"Exception", "SystemExit"}}
\* the (safe, default) arguments temporal_timeseries is called with
SeriesModes == {<<TRUE, 0>>, <<FALSE, 0>>, <<FALSE, 7>>}

\* the (weight, compose) arguments snapshots_outbound is called with
OutboundArgs == {<<"weight", "add">>, <<"weight", "max">>, <<"count", "add">>}

\* the temporal nodes the insertion entry points are called with
TimeNodes == Facs \X {0, 1}

EmptyFn == [x \in {} |-> 0]

\* ------------------------------------------------------------------- state
VARIABLES
    nodes,      \* the graph's node set
    adj,        \* the graph's edges: <<u, v>> |-> weight
    snapshots,  \* TemporalNetwork.snapshots: time |-> facilities
    present,    \* TemporalNetwork.present: facility |-> times
    kind,       \* "defaultdict" or "dict": what the two indices are
    origin,     \* how the network came to be: "new", "presence", ...
    table,      \* the stay table last given to from_presence
    disc,       \* the discretisation last given to from_presence
    window,     \* the return_window last given to from_presence
    presence,   \* the exploded, sorted presence table from_presence built
    nops,       \* state-changing calls made on the network so far
    file,       \* the graphml file write_graphml wrote, or NoFile
    saved,      \* the network as it was when write_graphml wrote it
    out,        \* what the last operation returned or raised
    database,   \* the table fix_all_overlaps is working on
    n_iters,    \* the iteration cap fix_all_overlaps was called with
    iterations, \* resolving iterations run so far by fix_overlaps
    pc          \* where the cleaner is: "idle"; "fixing" or "done" in
                \* fix_all_overlaps; "missing", "errors", "checked" or "failed"
                \* in clean_database

net == <<nodes, adj, snapshots, present, kind, origin, nops>>
inputs == <<table, disc, window, presence>>
cleaner == <<database, n_iters, iterations, pc>>
vars == <<net, inputs, file, saved, out, cleaner>>

NoOut == [op |-> "none", arg |-> {}, raised |-> FALSE, value |-> {}]
NoFile == [written |-> FALSE, nodes |-> {}, edges |-> EmptyFn]
NoNet == [nodes |-> {}, adj |-> EmptyFn, snapshots |-> EmptyFn, present |-> EmptyFn]

\* the outcome of a call: what it returned, or the exception it raised
Returned(name, a, v) == [op |-> name, arg |-> a, raised |-> FALSE, value |-> v]
Raised(name, a, exc) == [op |-> name, arg |-> a, raised |-> TRUE, value |-> exc]

\* ------------------------------------------------------- from_presence
SubjectRank(s) == IF s = "A" THEN 0 ELSE 1

Stay(s, f, a, d) == [sID |-> s, fID |-> f, Adate |-> a, Ddate |-> d]

Stays == {Stay(s, f, a, d) : s \in Subjects, f \in Facs,
                             a \in Times, d \in Times}

ValidStays == {s \in Stays : s.Adate <= s.Ddate}

\* pl.int_ranges(start, stop, step) for step >= 1
IntRangesShort(start, stop, step) ==
    IF stop - 1 <= start THEN {}
    ELSE {start + k * step : k \in 0..((stop - start - 2) \div step)}

IntRanges(start, stop, step) ==
    IF stop <= start THEN {}
    ELSE {start + k * step : k \in 0..((stop - start - 1) \div step)}

\* with_columns(int_ranges(...).alias("present")).explode("present") of the
\* row at position i of the table
Explode(tbl, i, D) ==
    {[idx |-> i, sID |-> tbl[i].sID, fID |-> tbl[i].fID,
      Adate |-> tbl[i].Adate, Ddate |-> tbl[i].Ddate, present |-> u] :
        u \in IntRanges((tbl[i].Adate \div D) * D, tbl[i].Ddate + 1, D)}

PresenceRows(tbl, D) == UNION {Explode(tbl, i, D) : i \in 1..Len(tbl)}

\* the order of .sort("sID", "present", "Adate")
SortKeyLessNoPresent(r1, r2) ==
    \/ SubjectRank(r1.sID) < SubjectRank(r2.sID)
    \/ r1.sID = r2.sID /\ r1.Adate < r2.Adate

SortKeyLess(r1, r2) ==
    \/ SubjectRank(r1.sID) < SubjectRank(r2.sID)
    \/ /\ r1.sID = r2.sID
       /\ \/ r1.present < r2.present
          \/ r1.present = r2.present /\ r1.Adate < r2.Adate

\* every outcome of the (unstable) sort: rows with equal keys in any order
RECURSIVE SortedOrders(_)
SortedOrders(rows) ==
    IF rows = {} THEN {<<>>}
    ELSE LET least == {r \in rows : \A q \in rows : ~SortKeyLess(q, r)}
         IN  UNION {{<<r>> \o s : s \in SortedOrders(rows \ {r})} : r \in least}

\* presence.select("fID", "present").unique()
PresenceNodes(pres) == {<<pres[i].fID, pres[i].present>> : i \in 1..Len(pres)}

\* shift(1), then the filter on the same subject and the return window
WithinWindowInclusive(gap, rw) == gap <= rw

WithinWindow(gap, rw) == gap < rw

Transitions(pres, rw) ==
    {i \in 2..Len(pres) :
        /\ pres[i].sID = pres[i - 1].sID
        /\ WithinWindow(pres[i].present - pres[i - 1].present, rw)}

TransitionEdge(pres, i) ==
    <<<<pres[i - 1].fID, pres[i - 1].present>>, <<pres[i].fID, pres[i].present>>>>

\* .select(...).group_by("*").len(): one row per distinct edge, with its count
EdgeCounts(pres, rw) ==
    LET es == {TransitionEdge(pres, i) : i \in Transitions(pres, rw)}
    IN  [e \in es |->
            Cardinality({i \in Transitions(pres, rw) : TransitionEdge(pres, i) = e})]

\* dict(presence.group_by("present").all().select("present", fID.list.unique()))
PresenceSnapshots(pres) ==
    LET ts == {pres[i].present : i \in 1..Len(pres)}
    IN  [t \in ts |-> {pres[i].fID : i \in {j \in 1..Len(pres) : pres[j].present = t}}]

\* dict(presence.group_by("fID").all().select("fID", present.list.unique()))
PresencePresent(pres) ==
    LET fs == {pres[i].fID : i \in 1..Len(pres)}
    IN  [f \in fs |-> {pres[i].present : i \in {j \in 1..Len(pres) : pres[j].fID = f}}]

\* the tables given to from_presence: up to MaxStays stays with Adate <= Ddate.
\* The builder sorts the rows itself and rows with equal sort keys may come out in
\* any order, so only one listing of each multiset of stays is enumerated.
StayCode(s) ==
    ((SubjectRank(s.sID) * 2 + (IF s.fID = "X" THEN 0 ELSE 1)) * (MaxT + 1)
        + s.Adate) * (MaxT + 1) + s.Ddate

Tables ==
    {tbl \in UNION {[1..n -> ValidStays] : n \in 0..MaxStays} :
        \A i \in 1..(Len(tbl) - 1) : StayCode(tbl[i]) <= StayCode(tbl[i + 1])}

\* add_nodes_from(...) and add_weighted_edges_from(...) on the fresh network
FromPresenceNodesEdgesOnly(pres, counts) ==
    {e[1] : e \in DOMAIN counts} \cup {e[2] : e \in DOMAIN counts}

FromPresenceNodes(pres, counts) ==
    PresenceNodes(pres) \cup {e[1] : e \in DOMAIN counts}
                        \cup {e[2] : e \in DOMAIN counts}

FromPresence ==
    /\ origin = "new"
    /\ nops = 0
    /\ \E tbl \in Tables, D \in Steps, rw \in Windows :
         \E pres \in SortedOrders(PresenceRows(tbl, D)) :
            LET counts == EdgeCounts(pres, rw)
            IN  /\ table' = tbl
                /\ disc' = D
                /\ window' = rw
                /\ presence' = pres
                /\ nodes' = FromPresenceNodes(pres, counts)
                /\ adj' = counts
                /\ snapshots' = PresenceSnapshots(pres)
                /\ present' = PresencePresent(pres)
                /\ kind' = "dict"
                /\ origin' = "presence"
                /\ out' = Returned("from_presence", {}, {})
    /\ nops' = MaxOps
    /\ UNCHANGED <<file, saved>>
    /\ UNCHANGED cleaner

\* ------------------------------------- from_presence with a step <= 0
\* from_presence does not look at discretisation before it hands it to polars.
NonPositiveSteps == {0, -1, -2}

\* the null polars puts where a value is missing; every time unit is >= 0
NullTime == -1

\* Adate.floordiv(D) * D for D < 0: floor division rounds towards minus infinity
FloorToStep(a, D) == ((a + (-D) - 1) \div (-D)) * (-D)

\* pl.int_ranges(start, stop, step) for step < 0: from start down to stop,
\* stop excluded; empty when start <= stop
IntRangesDown(start, stop, step) ==
    IF start <= stop THEN {}
    ELSE {start + k * step : k \in 0..((start - stop - 1) \div (-step))}

\* the time units of a row; explode turns an empty or a null list into one row
\* with a null.  With D = 0 the floor division by zero gives null.
PresentUnits(r, D) ==
    LET units == IF D < 0
                 THEN IntRangesDown(FloorToStep(r.Adate, D), r.Ddate + 1, D)
                 ELSE {}
    IN  IF units = {} THEN {NullTime} ELSE units

BadStepRows(tbl, D) ==
    UNION {{[idx |-> i, sID |-> tbl[i].sID, fID |-> tbl[i].fID,
             Adate |-> tbl[i].Adate, Ddate |-> tbl[i].Ddate, present |-> u] :
               u \in PresentUnits(tbl[i], D)} : i \in 1..Len(tbl)}

\* the filter drops the pairs whose gap is null
BadStepCounts(pres, rw) ==
    LET c == EdgeCounts(pres, rw)
    IN  [e \in {x \in DOMAIN c : x[1][2] # NullTime /\ x[2][2] # NullTime} |-> c[e]]

\* polars may refuse a zero step; it takes a negative one
BadStepRaises(D) == IF D = 0 THEN BOOLEAN ELSE {FALSE}

FromPresenceBadStep ==
    /\ origin = "new"
    /\ nops = 0
    /\ \E tbl \in Tables, D \in NonPositiveSteps, rw \in Windows :
         \E pres \in SortedOrders(BadStepRows(tbl, D)), fails \in BadStepRaises(D) :
            LET counts == BadStepCounts(pres, rw)
            IN  /\ table' = tbl
                /\ disc' = D
                /\ window' = rw
                /\ IF fails
                   THEN /\ out' = Raised("from_presence", {}, "InvalidOperationError")
                        /\ UNCHANGED <<presence, nodes, adj, snapshots, present,
                                       kind, origin>>
                   ELSE /\ presence' = pres
                        /\ nodes' = FromPresenceNodes(pres, counts)
                        /\ adj' = counts
                        /\ snapshots' = PresenceSnapshots(pres)
                        /\ present' = PresencePresent(pres)
                        /\ kind' = "dict"
                        /\ origin' = "presence"
                        /\ out' = Returned("from_presence", {}, {})
    /\ nops' = MaxOps
    /\ UNCHANGED <<file, saved>>
    /\ UNCHANGED cleaner

\* --------------------------------------------------- the insertion entry points
\* The indices of a network built by from_presence hold arrays in plain dicts, and
\* the builder's networks are not updated in place: the insertion entry points are
\* modelled on networks whose indices are the constructor's defaultdict(set).
CanInsert == kind = "defaultdict" /\ nops < MaxOps

\* snapshots[t].add(loc) / present[loc].add(t) on a defaultdict(set)
IndexAdd(index, key, member) ==
    IF key \in DOMAIN index
    THEN [index EXCEPT ![key] = @ \cup {member}]
    ELSE index @@ (key :> {member})

\* nx.DiGraph.add_edge(u, v, weight=w): both nodes exist afterwards, the edge's
\* weight is w
GraphAddEdge(g, u, v, w) ==
    IF <<u, v>> \in DOMAIN g THEN [g EXCEPT ![<<u, v>>] = w]
    ELSE g @@ (<<u, v>> :> w)

\* the loop of add_edge over (u_of_edge, v_of_edge)
RegisterTargetOnly(index, u, v, byTime) ==
    IF byTime
    THEN IndexAdd(index, v[2], v[1])
    ELSE IndexAdd(index, v[1], v[2])

RegisterEndpoints(index, u, v, byTime) ==
    IF byTime
    THEN IndexAdd(IndexAdd(index, u[2], u[1]), v[2], v[1])
    ELSE IndexAdd(IndexAdd(index, u[1], u[2]), v[1], v[2])

AddEdge ==
    /\ CanInsert
    /\ \E u \in TimeNodes, v \in TimeNodes, w \in Weights :
        /\ nodes' = nodes \cup {u, v}
        /\ adj' = GraphAddEdge(adj, u, v, w)
        /\ snapshots' = RegisterEndpoints(snapshots, u, v, TRUE)
        /\ present' = RegisterEndpoints(present, u, v, FALSE)
        /\ out' = Returned("add_edge", {}, {})
    /\ origin' = "api"
    /\ nops' = nops + 1
    /\ UNCHANGED <<kind, inputs, file, saved>>
    /\ UNCHANGED cleaner

\* add_node is inherited from nx.DiGraph: TemporalNetwork does not override it
AddNode ==
    /\ CanInsert
    /\ \E n \in TimeNodes :
        /\ nodes' = nodes \cup {n}
        /\ out' = Returned("add_node", {}, {})
    /\ origin' = "api"
    /\ nops' = nops + 1
    /\ UNCHANGED <<adj, snapshots, present, kind, inputs, file, saved>>
    /\ UNCHANGED cleaner

\* add_nodes_from is inherited from nx.DiGraph as well
AddNodesFrom ==
    /\ CanInsert
    /\ \E n1 \in TimeNodes, n2 \in TimeNodes :
        /\ nodes' = nodes \cup {n1, n2}
        /\ out' = Returned("add_nodes_from", {}, {})
    /\ origin' = "api"
    /\ nops' = nops + 1
    /\ UNCHANGED <<adj, snapshots, present, kind, inputs, file, saved>>
    /\ UNCHANGED cleaner

\* nx.DiGraph.add_edges_from([(u, v, {"weight": w})]) writes the adjacency itself:
\* it does not call add_edge
AddEdgesFrom ==
    /\ CanInsert
    /\ \E u \in TimeNodes, v \in TimeNodes, w \in Weights :
        /\ nodes' = nodes \cup {u, v}
        /\ adj' = GraphAddEdge(adj, u, v, w)
        /\ out' = Returned("add_edges_from", {}, {})
    /\ origin' = "api"
    /\ nops' = nops + 1
    /\ UNCHANGED <<snapshots, present, kind, inputs, file, saved>>
    /\ UNCHANGED cleaner

\* nx.DiGraph.add_weighted_edges_from([(u, v, w)]) calls add_edges_from
AddWeightedEdgesFrom ==
    /\ CanInsert
    /\ \E u \in TimeNodes, v \in TimeNodes, w \in Weights :
        /\ nodes' = nodes \cup {u, v}
        /\ adj' = GraphAddEdge(adj, u, v, w)
        /\ out' = Returned("add_weighted_edges_from", {}, {})
    /\ origin' = "api"
    /\ nops' = nops + 1
    /\ UNCHANGED <<snapshots, present, kind, inputs, file, saved>>
    /\ UNCHANGED cleaner

\* ------------------------------------------------ nodes_at_time, when_present
\* index[key] on a defaultdict(set) or on a plain dict.  Reading a missing key of
\* a defaultdict inserts it.
LookupInserts(index, key) == kind = "defaultdict" /\ key \notin DOMAIN index

LookupIndex(index, key) ==
    IF key \in DOMAIN index THEN index
    ELSE IF kind = "defaultdict" THEN index @@ (key :> {})
    ELSE index

LookupOut(name, index, key) ==
    IF key \in DOMAIN index THEN Returned(name, key, index[key])
    ELSE IF kind = "defaultdict" THEN Returned(name, key, {})
    ELSE Raised(name, key, "KeyError")

NodesAtTime ==
    /\ \E t \in Times :
        /\ LookupInserts(snapshots, t) => nops < MaxOps
        /\ snapshots' = LookupIndex(snapshots, t)
        /\ out' = LookupOut("nodes_at_time", snapshots, t)
        /\ nops' = (IF LookupInserts(snapshots, t) THEN nops + 1 ELSE nops)
    /\ UNCHANGED <<nodes, adj, present, kind, origin, inputs, file, saved>>
    /\ UNCHANGED cleaner

WhenPresent ==
    /\ \E f \in Facs :
        /\ LookupInserts(present, f) => nops < MaxOps
        /\ present' = LookupIndex(present, f)
        /\ out' = LookupOut("when_present", present, f)
        /\ nops' = (IF LookupInserts(present, f) THEN nops + 1 ELSE nops)
    /\ UNCHANGED <<nodes, adj, snapshots, kind, origin, inputs, file, saved>>
    /\ UNCHANGED cleaner

\* -------------------------------------------------------------- to_static
RECURSIVE SumWeights(_, _)
SumWeights(g, es) ==
    IF es = {} THEN 0
    ELSE LET e == CHOOSE x \in es : TRUE
         IN  g[e] + SumWeights(g, es \ {e})

\* the temporal edges to_static visits for the pair (loc, nbr_loc): those of
\* self[loc, t] for the t of present[loc] that lead to nbr_loc
VisitedEdges(loc, nbr) ==
    {e \in DOMAIN adj : e[1][1] = loc /\ e[1][2] \in present[loc] /\ e[2][1] = nbr}

\* the pairs to_static adds an edge for: "if loc != nbr_loc"
ProjectedWithLoops(loc, nbr) == VisitedEdges(loc, nbr) # {}

Projected(loc, nbr) == loc # nbr /\ VisitedEdges(loc, nbr) # {}

StaticEdges ==
    LET pairs == {p \in (DOMAIN present) \X Facs : Projected(p[1], p[2])}
    IN  [p \in pairs |-> SumWeights(adj, VisitedEdges(p[1], p[2]))]

\* S.add_node(loc, present=len(ts) / Nt): the fraction as <<numerator, denominator>>
StaticPresent ==
    [loc \in DOMAIN present |->
        <<Cardinality(present[loc]), Cardinality(DOMAIN snapshots)>>]

ToStaticOut ==
    IF DOMAIN present # {} /\ DOMAIN snapshots = {}
    THEN Raised("to_static", {}, "ZeroDivisionError")
    ELSE IF \E loc \in DOMAIN present : \E t \in present[loc] : <<loc, t>> \notin nodes
    THEN Raised("to_static", {}, "KeyError")
    ELSE Returned("to_static", {},
            [nodes |-> DOMAIN present \cup {p[2] : p \in DOMAIN StaticEdges},
             present |-> StaticPresent,
             edges |-> StaticEdges])

ToStatic ==
    /\ out' = ToStaticOut
    /\ UNCHANGED <<net, inputs, file, saved>>
    /\ UNCHANGED cleaner

\* ------------------------------------------------------ snapshots_outbound
Compose(c, a, b) ==
    IF c = "add" THEN a + b
    ELSE IF a >= b THEN a ELSE b

RECURSIVE Fold(_, _, _, _)
Fold(c, acc, g, es) ==
    IF es = {} THEN acc
    ELSE LET e == CHOOSE x \in es : TRUE
         IN  Fold(c, Compose(c, acc, g[e]), g, es \ {e})

\* the temporal edges from (loc, t) to neighbour at any time
OutEdges(loc, t, nbr) ==
    {e \in DOMAIN adj : e[1] = <<loc, t>> /\ e[2][1] = nbr}

\* S.edges.get((loc, neighbour), {weight: 0})[weight] on an edge that S already
\* has: S.add_edge(loc, neighbour, weight=new_weight) stored it under "weight"
MergeReads(wname) == wname = "weight"

\* the snapshot of time t, or the exception building it raises.  The weights of
\* G are read under the name the caller passes.
SnapshotRaises(t, wname) ==
    \/ \E loc \in snapshots[t] : <<loc, t>> \notin nodes
    \/ \E loc \in snapshots[t], nbr \in Facs :
          Cardinality(OutEdges(loc, t, nbr)) >= 2 /\ ~MergeReads(wname)

SnapshotEdges(t, wname, c) ==
    LET pairs == {p \in snapshots[t] \X Facs : OutEdges(p[1], t, p[2]) # {}}
    IN  [p \in pairs |-> Fold(c, 0, adj, OutEdges(p[1], t, p[2]))]

\* the pairs (t, S) the generator yields when it is run to its end
SnapshotsOutboundOut(wname, c) ==
    IF \E t \in DOMAIN snapshots : SnapshotRaises(t, wname)
    THEN Raised("snapshots_outbound", <<wname, c>>, "KeyError")
    ELSE Returned("snapshots_outbound", <<wname, c>>,
            [t \in DOMAIN snapshots |->
                [attr |-> "weight", edges |-> SnapshotEdges(t, wname, c)]])

SnapshotsOutbound ==
    /\ \E a \in OutboundArgs : out' = SnapshotsOutboundOut(a[1], a[2])
    /\ UNCHANGED <<net, inputs, file, saved>>
    /\ UNCHANGED cleaner

\* ------------------------------------------------ write_graphml, read_graphml
Digits == <<"0", "1", "2", "3", "4", "5", "6", "7", "8", "9">>

RECURSIVE IntChars(_)
IntChars(n) ==
    IF n < 10 THEN <<Digits[n + 1]>>
    ELSE IntChars(n \div 10) \o <<Digits[(n % 10) + 1]>>

\* str((loc, t)) for a one-letter facility name: ('X', 0)
NodeStr(n) == <<"(", "'", n[1], "'", ",", " ">> \o IntChars(n[2]) \o <<")">>

RECURSIVE LStrip(_, _)
LStrip(cs, c) ==
    IF cs # <<>> /\ Head(cs) = c THEN LStrip(Tail(cs), c) ELSE cs

RECURSIVE RStrip(_, _)
RStrip(cs, c) ==
    IF cs # <<>> /\ cs[Len(cs)] = c THEN RStrip(SubSeq(cs, 1, Len(cs) - 1), c) ELSE cs

Strip(cs, c) == RStrip(LStrip(cs, c), c)

\* str.split(","): the pieces between the commas
RECURSIVE Split(_, _)
Split(cs, c) ==
    IF \A i \in 1..Len(cs) : cs[i] # c THEN <<cs>>
    ELSE LET k == CHOOSE i \in 1..Len(cs) :
                      cs[i] = c /\ \A j \in 1..(i - 1) : cs[j] # c
         IN  <<SubSeq(cs, 1, k - 1)>> \o Split(SubSeq(cs, k + 1, Len(cs)), c)

DigitValue(ch) == (CHOOSE i \in 1..10 : Digits[i] = ch) - 1

RECURSIVE DigitsValue(_)
DigitsValue(cs) ==
    IF Len(cs) = 1 THEN DigitValue(cs[1])
    ELSE DigitsValue(SubSeq(cs, 1, Len(cs) - 1)) * 10 + DigitValue(cs[Len(cs)])

IsNumeral(cs) ==
    cs # <<>> /\ \A i \in 1..Len(cs) : \E d \in 1..10 : Digits[d] = cs[i]

\* parse_tuple(tuple_str): <<TRUE, <<loc, t>>>>, or <<FALSE, ...>> for ValueError
ParseTuple(cs) ==
    LET parts == Split(RStrip(LStrip(cs, "("), ")"), ",")
    IN  IF Len(parts) # 2 THEN <<FALSE, <<>>>>
        ELSE LET loc == Strip(parts[1], "'")
                 num == Strip(parts[2], " ")
             IN  IF ~IsNumeral(num) THEN <<FALSE, <<>>>>
                 ELSE <<TRUE, <<IF Len(loc) = 1 THEN loc[1] ELSE loc,
                                DigitsValue(num)>>>>

\* nx.write_graphml(self, outfile): the node ids are str(node)
GraphmlNodes(ns) == {NodeStr(n) : n \in ns}

GraphmlFile ==
    [written |-> TRUE,
     nodes |-> GraphmlNodes(nodes),
     edges |-> [e \in {<<NodeStr(d[1]), NodeStr(d[2])>> : d \in DOMAIN adj} |->
                  adj[CHOOSE d \in DOMAIN adj : <<NodeStr(d[1]), NodeStr(d[2])>> = e]]]

WriteGraphml ==
    /\ file' = GraphmlFile
    /\ saved' = [nodes |-> nodes, adj |-> adj,
                 snapshots |-> snapshots, present |-> present]
    /\ out' = Returned("write_graphml", {}, {})
    /\ UNCHANGED <<net, inputs>>
    /\ UNCHANGED cleaner

\* from_timenode_projection: the indices are filled from G.edges
ProjectionIndex(g, byTime) ==
    LET ends == {e[1] : e \in DOMAIN g} \cup {e[2] : e \in DOMAIN g}
        keys == {IF byTime THEN n[2] ELSE n[1] : n \in ends}
    IN  [k \in keys |->
            {IF byTime THEN n[1] ELSE n[2] :
                n \in {m \in ends : (IF byTime THEN m[2] ELSE m[1]) = k}}]

ReadGraphml ==
    /\ file.written
    /\ IF \E cs \in file.nodes : ~ParseTuple(cs)[1]
       THEN /\ out' = Raised("read_graphml", {}, "ValueError")
            /\ UNCHANGED net
       ELSE LET g == [e \in {<<ParseTuple(d[1])[2], ParseTuple(d[2])[2]>> :
                                d \in DOMAIN file.edges} |->
                        file.edges[CHOOSE d \in DOMAIN file.edges :
                            <<ParseTuple(d[1])[2], ParseTuple(d[2])[2]>> = e]]
            IN  /\ nodes' = {ParseTuple(cs)[2] : cs \in file.nodes}
                /\ adj' = g
                /\ snapshots' = ProjectionIndex(g, TRUE)
                /\ present' = ProjectionIndex(g, FALSE)
                /\ kind' = "defaultdict"
                /\ origin' = "imported"
                /\ out' = Returned("read_graphml", {}, {})
                /\ UNCHANGED nops
    /\ UNCHANGED <<inputs, file, saved>>
    /\ UNCHANGED cleaner

\* ------------------------------------------------------ temporal_timeseries
\* failover(func, default): the outcome of the wrapped metric, given the outcome
\* o of the metric: `except Exception` warns and substitutes default; any other
\* exception leaves ret unbound and the `return ret` of the finally clause raises
\* UnboundLocalError in its place
FailoverDropsDefault(o, default) ==
    IF o.exc = "none" THEN [exc |-> "none", value |-> o.value, warned |-> FALSE]
    ELSE IF o.exc = "Exception"
         THEN [exc |-> "none", value |-> 0, warned |-> TRUE]
         ELSE [exc |-> "UnboundLocalError", value |-> 0, warned |-> FALSE]

Failover(o, default) ==
    IF o.exc = "none" THEN [exc |-> "none", value |-> o.value, warned |-> FALSE]
    ELSE IF o.exc = "Exception"
         THEN [exc |-> "none", value |-> default, warned |-> TRUE]
         ELSE [exc |-> "UnboundLocalError", value |-> 0, warned |-> FALSE]

\* the method temporal_timeseries applies to a snapshot
Method(o, safe, default) ==
    IF safe THEN [exc |-> o.exc, value |-> o.value, warned |-> FALSE]
    ELSE Failover(o, default)

\* the order of Python's tuples (t, value)
TupleLess(a, b) == a[1] < b[1] \/ (a[1] = b[1] /\ a[2] < b[2])

RemoveAt(sq, k) == SubSeq(sq, 1, k - 1) \o SubSeq(sq, k + 1, Len(sq))

\* sorted(...) of a list of tuples
SortedUnsorted(sq) == sq

RECURSIVE Sorted(_)
Sorted(sq) ==
    IF sq = <<>> THEN <<>>
    ELSE LET k == CHOOSE i \in 1..Len(sq) :
                      /\ \A j \in 1..Len(sq) : ~TupleLess(sq[j], sq[i])
                      /\ \A j \in 1..(i - 1) : TupleLess(sq[i], sq[j])
         IN  <<sq[k]>> \o Sorted(RemoveAt(sq, k))

\* temporal_timeseries on the snapshot times ts, the metric's outcome on the i-th
\* snapshot being os[i]: the generator stops at the first snapshot on which the
\* method raises
TimeseriesOut(src, ts, os, safe, default) ==
    LET a == [source |-> src, ts |-> ts, outcomes |-> os,
              safe |-> safe, default |-> default]
        r == [i \in 1..Len(ts) |-> Method(os[i], safe, default)]
        bad == {i \in 1..Len(ts) : r[i].exc # "none"}
    IN  IF bad # {}
        THEN Raised("temporal_timeseries", a,
                    r[CHOOSE i \in bad : \A j \in bad : i <= j].exc)
        ELSE Returned("temporal_timeseries", a,
                [series |-> Sorted([i \in 1..Len(ts) |-> <<ts[i], r[i].value>>]),
                 warnings |-> Cardinality({i \in 1..Len(ts) : r[i].warned})])

Orderings(S) ==
    {f \in [1..Cardinality(S) -> S] : \A i, j \in 1..Cardinality(S) : f[i] = f[j] => i = j}

TemporalTimeseries ==
    /\ \E m \in SeriesModes :
        \* snapshots=None: the outbound snapshots of G, in the order of the dict
        \/ /\ ~SnapshotsOutboundOut("weight", "add").raised
           /\ \E ts \in Orderings(DOMAIN snapshots) :
                \E os \in [1..Len(ts) -> MetricOutcomes] :
                    out' = TimeseriesOut("outbound", ts, os, m[1], m[2])
        \/ /\ SnapshotsOutboundOut("weight", "add").raised
           /\ out' = Raised("temporal_timeseries",
                            [source |-> "outbound", ts |-> <<>>, outcomes |-> <<>>,
                             safe |-> m[1], default |-> m[2]], "KeyError")
        \* a sequence of (t, S) the caller supplies: G is not read then, and
        \* the call is enumerated on the empty network only
        \/ /\ nodes = {}
           /\ \E n \in 0..MaxSnaps :
                \E ts \in [1..n -> Times], os \in [1..n -> MetricOutcomes] :
                    out' = TimeseriesOut("supplied", ts, os, m[1], m[2])
    /\ UNCHANGED <<net, inputs, file, saved>>
    /\ UNCHANGED cleaner

\* --------------------------------------------------------- fix_all_overlaps
\* The resolver module (overlap_fixer: fix_overlaps, num_overlaps) is modelled
\* from its specification; fix_all_overlaps is the caller in the cleaner.
Min(a, b) == IF a <= b THEN a ELSE b

Max(a, b) == IF a >= b THEN a ELSE b

\* two records overlap iff they are of one subject and their [admission,
\* discharge) intervals intersect
Overlap(r, q) ==
    /\ r.sID = q.sID
    /\ Max(r.Adate, q.Adate) < Min(r.Ddate, q.Ddate)

OverlapPairsAdjacent(db) ==
    {p \in (1..Len(db)) \X (1..Len(db)) : p[2] = p[1] + 1 /\ Overlap(db[p[1]], db[p[2]])}

OverlapPairs(db) ==
    {p \in (1..Len(db)) \X (1..Len(db)) : p[1] < p[2] /\ Overlap(db[p[1]], db[p[2]])}

\* num_overlaps(table): the count of overlapping same-subject pairs
NumOverlaps(db) == Cardinality(OverlapPairs(db))

\* the earlier-starting record's discharge is trimmed to the later record's
\* admission
TrimLater(db, i, j) == [db EXCEPT ![j].Adate = db[i].Ddate]

Trim(db, i, j) == [db EXCEPT ![i].Ddate = db[j].Adate]

\* the days of the records the resolver is given
Days == {0, 3, 5, 8}

\* the records the resolver is given: every row has admission <= discharge
CleanerStays ==
    {r \in {Stay(s, f, a, d) : s \in Subjects, f \in Facs, a \in Days, d \in Days} :
        r.Adate <= r.Ddate}

RecordCode(s) ==
    ((SubjectRank(s.sID) * 2 + (IF s.fID = "X" THEN 0 ELSE 1)) * 9 + s.Adate) * 9
        + s.Ddate

\* the tables of at most n records, the rows in one canonical order
RECURSIVE TablesUpTo(_)
TablesUpTo(n) ==
    IF n = 0 THEN {<<>>}
    ELSE LET shorter == TablesUpTo(n - 1)
         IN  shorter \cup
             {Append(p[1], p[2]) :
                 p \in {q \in shorter \X CleanerStays :
                           /\ Len(q[1]) = n - 1
                           /\ n > 1 => RecordCode(q[1][n - 1]) <= RecordCode(q[2])}}

CleanerTables == TablesUpTo(MaxRecords)

\* fix_all_overlaps(database, n_iters) is called and enters fix_overlaps
FixAllOverlaps ==
    /\ pc = "idle"
    /\ \E tbl \in CleanerTables, n \in (0..MaxIters) \cup {DefaultNIters} :
        /\ database' = tbl
        /\ n_iters' = n
    /\ iterations' = 0
    /\ pc' = "fixing"
    /\ out' = NoOut
    /\ UNCHANGED <<net, inputs, file, saved>>

\* one iteration of fix_overlaps: select an overlap, resolve it, recheck
FixIteration ==
    /\ pc = "fixing"
    /\ iterations < n_iters
    /\ NumOverlaps(database) > 0
    /\ \E i \in 1..Len(database), j \in 1..Len(database) :
        /\ i # j
        /\ Overlap(database[i], database[j])
        /\ database[i].Adate <= database[j].Adate
        /\ database' = Trim(database, i, j)
    /\ iterations' = iterations + 1
    /\ UNCHANGED <<net, inputs, file, saved, out, n_iters, pc>>

\* fix_overlaps returns; fix_all_overlaps reports num_overlaps and returns the
\* table
FixReturn ==
    /\ pc = "fixing"
    /\ iterations >= n_iters \/ NumOverlaps(database) = 0
    /\ pc' = "done"
    /\ out' = Returned("fix_all_overlaps", n_iters,
                       [table |-> database, n_overlaps |-> NumOverlaps(database)])
    /\ UNCHANGED <<net, inputs, file, saved, database, n_iters, iterations>>

\* ----------------------------------------------- global_reaching_timeseries
\* the two modules that define global_reaching_timeseries:
\* tempest/basic_temporal_analysis.py and basic_temporal_analysis.py
Modules == {"tempest", "toplevel"}

\* the guard of the inner global_reaching_centrality: G.number_of_nodes() < bound
NodeGuard(m) == IF m = "tempest" THEN 2 ELSE 1

\* the number of nodes of a snapshot: the endpoints of its edges
NumberOfNodes(S) ==
    Cardinality({p[1] : p \in DOMAIN S.edges} \cup {p[2] : p \in DOMAIN S.edges})

\* the inner global_reaching_centrality on snapshot S; v is what the library
\* returns on a snapshot of two or more nodes.  On one node the library divides
\* by len(G) - 1.
Centrality(m, S, v) ==
    IF NumberOfNodes(S) < NodeGuard(m)
    THEN [exc |-> "none", value |-> 0, invoked |-> FALSE]
    ELSE IF NumberOfNodes(S) = 1
         THEN [exc |-> "ZeroDivisionError", value |-> 0, invoked |-> TRUE]
         ELSE [exc |-> "none", value |-> v, invoked |-> TRUE]

GlobalReachingOut(m, vals) ==
    LET snaps == SnapshotsOutboundOut("weight", "add")
    IN  IF snaps.raised
        THEN Raised("global_reaching_timeseries", [module |-> m], snaps.value)
        ELSE LET r == [t \in DOMAIN snapshots |-> Centrality(m, snaps.value[t], vals[t])]
                 ts == CHOOSE f \in Orderings(DOMAIN snapshots) : TRUE
             IN  IF \E t \in DOMAIN snapshots : r[t].exc # "none"
                 THEN Raised("global_reaching_timeseries", [module |-> m],
                             "ZeroDivisionError")
                 ELSE Returned("global_reaching_timeseries", [module |-> m],
                         [series |-> Sorted([i \in 1..Len(ts) |->
                                               <<ts[i], r[ts[i]].value>>]),
                          invoked |-> {t \in DOMAIN snapshots : r[t].invoked}])

GlobalReachingTimeseries ==
    /\ \E m \in Modules, vals \in [DOMAIN snapshots -> {0, 1}] :
          out' = GlobalReachingOut(m, vals)
    /\ UNCHANGED <<net, inputs, file, saved>>
    /\ UNCHANGED cleaner

\* ----------------------------- clean_missing_values, clean_erroneous_records
\* the rows of a raw table: identifiers may be null or blank, a discharge may be
\* null (NullTime) or lie before the admission
RawRows ==
    {Stay(s, f, a, d) : s \in {"A", "B", " ", "null"}, f \in {"X", "null"},
                        a \in {0, 1}, d \in {0, 1, NullTime}}

RawCode(r) ==
    (((IF r.sID = "A" THEN 0 ELSE IF r.sID = "B" THEN 1
       ELSE IF r.sID = " " THEN 2 ELSE 3) * 2
      + (IF r.fID = "X" THEN 0 ELSE 1)) * 2 + r.Adate) * 3 + (r.Ddate + 1)

RawTables ==
    {tbl \in UNION {[1..n -> RawRows] : n \in 0..MaxStays} :
        \A i \in 1..(Len(tbl) - 1) : RawCode(tbl[i]) <= RawCode(tbl[i + 1])}

\* the values the delete_missing / delete_errors flags are given
DeleteFlags == {"False", "True", "record", "subject"}

\* database.filter(pred): the rows that satisfy pred, in their order
RECURSIVE FilterRows(_, _)
FilterRows(tbl, keep) ==
    IF tbl = <<>> THEN <<>>
    ELSE (IF Head(tbl) \in keep THEN <<Head(tbl)>> ELSE <<>>)
            \o FilterRows(Tail(tbl), keep)

Rows(tbl) == {tbl[i] : i \in 1..Len(tbl)}

HasNull(r) == r.sID = "null" \/ r.fID = "null" \/ r.Ddate = NullTime

\* any_horizontal(all().is_null()) | any_horizontal(col(sID, fID).strip_chars() == "")
IsMissing(r) == HasNull(r) \/ r.sID = " " \/ r.fID = " "

\* pl.col("Adate") > pl.col("Ddate"); a comparison with null is null
IsErroneous(r) == r.Ddate # NullTime /\ r.Adate > r.Ddate

\* an expression of the installed polars may be refused (pl.all(expr), .is_not())
LibraryRefuses == BOOLEAN

CleanMissingOut(tbl, flag, refused) ==
    LET a == [table |-> tbl, flag |-> flag]
        name == "clean_missing_values"
    IN  IF \A r \in Rows(tbl) : ~IsMissing(r) THEN Returned(name, a, tbl)
        ELSE IF flag = "False" THEN Raised(name, a, "DataHandlingError")
        ELSE IF flag = "record"
             THEN IF refused THEN Raised(name, a, "TypeError")
                  ELSE Returned(name, a, FilterRows(tbl, {r \in Rows(tbl) : ~HasNull(r)}))
        ELSE IF flag = "subject" THEN Raised(name, a, "ColumnNotFoundError")
        ELSE Raised(name, a, "DataHandlingError")

CleanErroneousOut(tbl, flag, refused) ==
    LET a == [table |-> tbl, flag |-> flag]
        name == "clean_erroneous_records"
    IN  IF \A r \in Rows(tbl) : ~IsErroneous(r) THEN Returned(name, a, tbl)
        ELSE IF flag = "False" THEN Raised(name, a, "DataHandlingError")
        ELSE IF flag = "record"
             THEN IF refused THEN Raised(name, a, "AttributeError")
                  ELSE Returned(name, a, FilterRows(tbl, {r \in Rows(tbl) : ~IsErroneous(r)}))
        ELSE IF flag = "subject" THEN Raised(name, a, "ColumnNotFoundError")
        ELSE Returned(name, a, tbl)

\* clean_database(database, ...) is called; the column names and types are in
\* order
CleanDatabase ==
    /\ pc = "idle"
    /\ \E tbl \in RawTables : database' = tbl
    /\ pc' = "missing"
    /\ out' = NoOut
    /\ UNCHANGED <<net, inputs, file, saved, n_iters, iterations>>

\* database = clean_missing_values(database, delete_missing)
CleanMissingValues ==
    /\ pc = "missing"
    /\ \E flag \in DeleteFlags, refused \in LibraryRefuses :
          out' = CleanMissingOut(database, flag, refused)
    /\ database' = (IF out'.raised THEN database ELSE out'.value)
    /\ pc' = (IF out'.raised THEN "failed" ELSE "errors")
    /\ UNCHANGED <<net, inputs, file, saved, n_iters, iterations>>

\* database = clean_erroneous_records(database, delete_errors)
CleanErroneousRecords ==
    /\ pc = "errors"
    /\ \E flag \in DeleteFlags, refused \in LibraryRefuses :
          out' = CleanErroneousOut(database, flag, refused)
    /\ database' = (IF out'.raised THEN database ELSE out'.value)
    /\ pc' = (IF out'.raised THEN "failed" ELSE "checked")
    /\ UNCHANGED <<net, inputs, file, saved, n_iters, iterations>>

Init ==
    /\ nodes = {}
    /\ adj = EmptyFn
    /\ snapshots = EmptyFn
    /\ present = EmptyFn
    /\ kind = "defaultdict"
    /\ origin = "new"
    /\ nops = 0
    /\ table = <<>>
    /\ disc = 1
    /\ window = DefaultReturnWindow
    /\ presence = <<>>
    /\ file = NoFile
    /\ saved = NoNet
    /\ out = NoOut
    /\ database = <<>>
    /\ n_iters = DefaultNIters
    /\ iterations = 0
    /\ pc = "idle"

Next ==
    \/ FromPresence
    \/ AddEdge
    \/ AddNode
    \/ AddNodesFrom
    \/ AddEdgesFrom
    \/ AddWeightedEdgesFrom
    \/ NodesAtTime
    \/ WhenPresent
    \/ ToStatic
    \/ SnapshotsOutbound
    \/ WriteGraphml
    \/ ReadGraphml

Spec == Init /\ [][Next]_vars

\* the builder and the two lookups alone
NextPresence ==
    \/ FromPresence
    \/ NodesAtTime
    \/ WhenPresent

SpecPresence == Init /\ [][NextPresence]_vars

\* the insertion entry points and the two lookups alone
NextInsert ==
    \/ AddEdge
    \/ AddNode
    \/ AddNodesFrom
    \/ AddEdgesFrom
    \/ AddWeightedEdgesFrom
    \/ NodesAtTime
    \/ WhenPresent

SpecInsert == Init /\ [][NextInsert]_vars

\* the time-series engine on networks built with add_edge
NextSeries ==
    \/ AddEdge
    \/ TemporalTimeseries

SpecSeries == Init /\ [][NextSeries]_vars

\* from_presence called with a step <= 0
NextBadStep ==
    \/ FromPresenceBadStep
    \/ NodesAtTime
    \/ WhenPresent

SpecBadStep == Init /\ [][NextBadStep]_vars

\* snapshots_outbound on networks built by from_presence or with add_edge
NextOutbound ==
    \/ FromPresence
    \/ AddEdge
    \/ NodesAtTime
    \/ SnapshotsOutbound

SpecOutbound == Init /\ [][NextOutbound]_vars

\* global_reaching_timeseries on networks built with add_edge
NextReaching ==
    \/ AddEdge
    \/ GlobalReachingTimeseries

SpecReaching == Init /\ [][NextReaching]_vars

\* the two record checks of the cleaner
NextChecks ==
    \/ CleanDatabase
    \/ CleanMissingValues
    \/ CleanErroneousRecords

SpecChecks == Init /\ [][NextChecks]_vars

\* the overlap resolver
NextCleaner ==
    \/ FixAllOverlaps
    \/ FixIteration
    \/ FixReturn

SpecCleaner == Init /\ [][NextCleaner]_vars

\* ------------------------------------------------------------------ claims
AllTimeNodes == Facs \X Times

\* what a caller sees of nodes_at_time(t) and when_present(f)
InNodesAtTime(f, t) ==
    LET o == LookupOut("nodes_at_time", snapshots, t)
    IN  ~o.raised /\ f \in o.value

InWhenPresent(f, t) ==
    LET o == LookupOut("when_present", present, f)
    IN  ~o.raised /\ t \in o.value

Isolated(n) ==
    /\ n \in nodes
    /\ \A e \in DOMAIN adj : e[1] # n /\ e[2] # n

\* C1: in every network from_presence returns, for every facility f and time
\* unit t: f is in nodes_at_time(t) iff t is in when_present(f) iff (f, t) is a
\* node of the graph.  (A lookup that raises KeyError has no member.)
C1_IndicesMatchNodes ==
    origin = "presence" =>
        \A f \in Facs, t \in Times :
            /\ InNodesAtTime(f, t) <=> InWhenPresent(f, t)
            /\ InWhenPresent(f, t) <=> <<f, t>> \in nodes

C1_Witness ==
    /\ origin = "presence"
    /\ out.op = "nodes_at_time"
    /\ ~out.raised
    /\ \E f \in out.value : Isolated(<<f, out.arg>>)
    /\ \E t \in Times : t \notin DOMAIN snapshots
    /\ DOMAIN adj # {}

\* C2: after any sequence of insertions through add_edge, add_node,
\* add_nodes_from, add_edges_from and add_weighted_edges_from, every node
\* (facility, time) of the graph is registered in both indices.
Registered(n) ==
    /\ n[2] \in DOMAIN snapshots
    /\ n[1] \in snapshots[n[2]]
    /\ n[1] \in DOMAIN present
    /\ n[2] \in present[n[1]]

C2_EveryNodeRegistered ==
    origin \in {"new", "api"} => \A n \in nodes : Registered(n)

\* C3: in the network built by from_presence the presence rows are ordered by
\* subject, time unit and admission, and for every ordered pair (u, v) of
\* temporal nodes the edge u -> v exists iff at least one pair of consecutive
\* rows of one subject goes from u to v with a time-unit gap below
\* return_window, and its weight is the number of such pairs.
RowNode(r) == <<r.fID, r.present>>

ConsecutivePairs(u, v) ==
    {i \in 1..(Len(presence) - 1) :
        /\ presence[i].sID = presence[i + 1].sID
        /\ RowNode(presence[i]) = u
        /\ RowNode(presence[i + 1]) = v
        /\ presence[i + 1].present - presence[i].present < window}

RowsOrdered ==
    \A i \in 1..Len(presence), j \in 1..Len(presence) :
        (i < j /\ presence[i].sID = presence[j].sID) =>
            /\ \A k \in i..j : presence[k].sID = presence[i].sID
            /\ presence[i].present <= presence[j].present
            /\ presence[i].present = presence[j].present
                    => presence[i].Adate <= presence[j].Adate

C3_WeightCountsTransitions ==
    origin = "presence" =>
        /\ RowsOrdered
        /\ \A u \in AllTimeNodes, v \in AllTimeNodes :
              LET n == Cardinality(ConsecutivePairs(u, v))
              IN  /\ (<<u, v>> \in DOMAIN adj) <=> (n >= 1)
                  /\ (n >= 1) => adj[<<u, v>>] = n
        /\ DOMAIN adj \subseteq AllTimeNodes \X AllTimeNodes

C3_Witness ==
    /\ origin = "presence"
    /\ \E e \in DOMAIN adj : adj[e] = 2
    /\ \E i \in 1..(Len(presence) - 1) : presence[i].sID # presence[i + 1].sID

\* C4: from_presence creates, for every stay (f, A, Dd) with A <= Dd and step
\* D >= 1, the nodes (f, u) for exactly the time units u = floor(A/D)*D + k*D
\* (k >= 0) with u <= Dd; the node set is exactly these pairs, isolated ones
\* included; one stay with A = Dd = 0 and D = 1 gives one node and no edge.
StayUnits(s, D) ==
    {u \in Times :
        /\ u <= s.Ddate
        /\ u > s.Adate - D
        /\ u % D = 0}

C4_NodesAreStayUnits ==
    origin = "presence" =>
        /\ nodes = UNION {{<<table[i].fID, u>> : u \in StayUnits(table[i], disc)} :
                            i \in 1..Len(table)}
        /\ (Len(table) = 1 /\ table[1].Adate = 0 /\ table[1].Ddate = 0 /\ disc = 1)
              => (Cardinality(nodes) = 1 /\ DOMAIN adj = {})

C4_Witness ==
    /\ origin = "presence"
    /\ disc = 2
    /\ \E i \in 1..Len(table) :
          /\ table[i].Adate = 1
          /\ Isolated(<<table[i].fID, 0>>)

\* C5: for every network built by from_presence or imported, and every ordered
\* pair of distinct facilities a # b, the weight of a -> b in to_static() is the
\* sum of the weights of all temporal edges from (a, t) to (b, t'), the edge is
\* absent exactly when there is no such temporal edge, and there is no edge
\* a -> a.  to_static() returns whenever the network has a temporal edge.
TemporalEdges(a, b) == {e \in DOMAIN adj : e[1][1] = a /\ e[2][1] = b}

C5_StaticWeightIsSum ==
    (origin \in {"presence", "imported"} /\ out.op = "to_static") =>
        /\ out.raised => DOMAIN adj = {}
        /\ ~out.raised =>
              \A a \in Facs, b \in Facs :
                 /\ <<a, b>> \in DOMAIN out.value.edges
                        <=> (a # b /\ TemporalEdges(a, b) # {})
                 /\ <<a, b>> \in DOMAIN out.value.edges
                        => out.value.edges[<<a, b>>]
                              = SumWeights(adj, TemporalEdges(a, b))

C5_Witness ==
    /\ origin = "imported"
    /\ out.op = "to_static"
    /\ ~out.raised
    /\ \E a \in Facs, b \in Facs :
          /\ a # b
          /\ Cardinality(TemporalEdges(a, b)) >= 2
          /\ out.value.edges[<<a, b>>] >= 3

\* C6: for every time unit t and facilities f, f', the snapshot S_t yielded by
\* snapshots_outbound(G, weight, compose) has an edge f -> f' iff G has an edge
\* from (f, t) to (f', t') for some t', and its weight is compose folded from 0
\* over the weights of those temporal edges; for any attribute name `weight`.
C6_SnapshotFoldsCompose ==
    out.op = "snapshots_outbound" =>
        /\ ~out.raised
        /\ \A t \in DOMAIN snapshots, f \in Facs, g \in Facs :
              LET es == {e \in DOMAIN adj : e[1] = <<f, t>> /\ e[2][1] = g}
                  S == out.value[t]
              IN  /\ (<<f, g>> \in DOMAIN S.edges) <=> (es # {})
                  /\ (es # {}) => S.edges[<<f, g>>] = Fold(out.arg[2], 0, adj, es)

\* C9: write_graphml followed by read_graphml gives a network with the same
\* nodes (isolated ones included), edges and weights, whose nodes_at_time(t) and
\* when_present(f) hold the same facilities and times as the original's.
Members(index, key) == IF key \in DOMAIN index THEN index[key] ELSE {}

C9_GraphmlRoundTrip ==
    out.op = "read_graphml" =>
        /\ ~out.raised
        /\ nodes = saved.nodes
        /\ adj = saved.adj
        /\ \A t \in Times : Members(snapshots, t) = Members(saved.snapshots, t)
        /\ \A f \in Facs : Members(present, f) = Members(saved.present, f)

\* C7: temporal_timeseries returns a list with exactly one (t, value) entry per
\* snapshot of the snapshot sequence (the outbound snapshots of G, or the
\* sequence the caller supplies), sorted in ascending order of t.
TimesCount(sq, t) == Cardinality({i \in 1..Len(sq) : sq[i] = t})

EntryCount(sq, t) == Cardinality({i \in 1..Len(sq) : sq[i][1] = t})

C7_SeriesSortedOnePerSnapshot ==
    (out.op = "temporal_timeseries" /\ ~out.raised) =>
        LET series == out.value.series
        IN  /\ Len(series) = Len(out.arg.ts)
            /\ \A t \in Times : EntryCount(series, t) = TimesCount(out.arg.ts, t)
            /\ \A i \in 1..Len(series), j \in 1..Len(series) :
                  i < j => series[i][1] <= series[j][1]
            /\ out.arg.source = "outbound" =>
                  \A t \in Times :
                      EntryCount(series, t) = (IF t \in DOMAIN snapshots THEN 1 ELSE 0)

C7_Witness ==
    /\ out.op = "temporal_timeseries"
    /\ ~out.raised
    /\ out.arg.source = "outbound"
    /\ Len(out.arg.ts) = 2
    /\ out.arg.ts[1] > out.arg.ts[2]
    /\ out.value.series[1][1] < out.value.series[2][1]

\* C8: with safe = False temporal_timeseries never fails because the metric
\* fails: for every snapshot on which the metric raises a warning is emitted and
\* the entry of that snapshot carries `default`, every other entry carries the
\* metric's value; with safe = True the first metric failure propagates and no
\* series is returned.
PairCount(sq, e) == Cardinality({i \in 1..Len(sq) : sq[i] = e})

ExpectedCount(a, e) ==
    Cardinality({i \in 1..Len(a.ts) :
        /\ a.ts[i] = e[1]
        /\ e[2] = (IF a.outcomes[i].exc = "none" THEN a.outcomes[i].value
                   ELSE a.default)})

\* the metric fails on a snapshot when it raises an Exception; SystemExit,
\* KeyboardInterrupt and GeneratorExit are not failures of the metric
MetricFails(a) == {i \in 1..Len(a.ts) : a.outcomes[i].exc = "Exception"}

MetricExits(a) == {i \in 1..Len(a.ts) : a.outcomes[i].exc = "SystemExit"}

C8_FailoverSubstitutesDefault ==
    (out.op = "temporal_timeseries" /\ ~(out.raised /\ out.value = "KeyError")) =>
        LET a == out.arg
        IN  /\ (~a.safe /\ MetricExits(a) = {}) =>
                /\ ~out.raised
                /\ out.value.warnings = Cardinality(MetricFails(a))
                /\ \A e \in Times \X {0, 1, 2, 7} :
                      PairCount(out.value.series, e) = ExpectedCount(a, e)
            /\ a.safe =>
                LET bad == MetricFails(a) \cup MetricExits(a)
                IN  /\ out.raised <=> bad # {}
                    /\ out.raised =>
                          \E i \in bad : /\ \A j \in bad : i <= j
                                         /\ out.value = a.outcomes[i].exc

C8_Witness ==
    /\ out.op = "temporal_timeseries"
    /\ ~out.raised
    /\ ~out.arg.safe
    /\ out.arg.default = 7
    /\ out.value.warnings = 1
    /\ Len(out.value.series) = 2
    /\ \E i \in 1..2 :
          out.arg.outcomes[i].exc = "Exception" /\ <<out.arg.ts[i], 7>> = out.value.series[i]
    /\ \E i \in 1..2 : out.value.series[i][2] = 2

\* C10: after fix_overlaps(table, iters = n_iters) returns, either no two stays
\* of one subject have intersecting [admission, discharge) intervals or
\* num_overlaps on the returned table is non-zero; the resolver stops as soon as
\* zero overlaps remain and otherwise after at most n_iters iterations.
HalfOpen(r) == {t \in 0..8 : r.Adate <= t /\ t < r.Ddate}

Intersecting(db) ==
    \E i \in 1..Len(db), j \in 1..Len(db) :
        /\ i # j
        /\ db[i].sID = db[j].sID
        /\ HalfOpen(db[i]) \cap HalfOpen(db[j]) # {}

C10_FixOverlapsStops ==
    /\ [](/\ iterations <= n_iters
          /\ pc = "done" =>
                /\ ~Intersecting(out.value.table) \/ out.value.n_overlaps # 0
                /\ iterations = n_iters \/ ~Intersecting(out.value.table))
    /\ [][iterations' # iterations => (pc = "idle" \/ Intersecting(database))]_vars

C10_Witness ==
    /\ pc = "done"
    /\ n_iters = 1
    /\ iterations = 1
    /\ Intersecting(out.value.table)
    /\ out.value.n_overlaps = 1

\* C11: when exactly two stays of one subject overlap, a resolving iteration
\* trims the discharge of the earlier-starting stay to the admission of the
\* later-starting stay, leaves every other record unchanged, and num_overlaps of
\* the result is 0: P (day 0 to 5), Q (day 3 to 8) become P (0 to 3), Q (3 to 8).
C11_TrimEarlierStay ==
    [][\A i \in 1..Len(database), j \in 1..Len(database) :
          (/\ pc = "fixing"
           /\ iterations' = iterations + 1
           /\ database[i].sID = database[j].sID
           /\ database[i].Adate < database[j].Adate
           /\ HalfOpen(database[i]) \cap HalfOpen(database[j]) # {}
           /\ \A k \in 1..Len(database), l \in 1..Len(database) :
                 (/\ k < l
                  /\ database[k].sID = database[l].sID
                  /\ HalfOpen(database[k]) \cap HalfOpen(database[l]) # {})
                    => {k, l} = {i, j})
          => /\ Len(database') = Len(database)
             /\ database'[i] = [database[i] EXCEPT !.Ddate = database[j].Adate]
             /\ \A k \in 1..Len(database) : k # i => database'[k] = database[k]
             /\ ~Intersecting(database')
             /\ NumOverlaps(database') = 0]_vars

C11_Witness ==
    /\ pc = "done"
    /\ iterations = 1
    /\ out.value.table = <<Stay("A", "X", 0, 3), Stay("A", "Y", 3, 8)>>
    /\ out.value.n_overlaps = 0

\* C12: global_reaching_timeseries (of both modules) returns the value 0 at
\* every time point whose snapshot has fewer than 2 nodes, without invoking the
\* underlying centrality computation.
SmallSnapshots ==
    {t \in DOMAIN snapshots :
        Cardinality({e[1][1] : e \in {x \in DOMAIN adj : x[1][2] = t}}
                    \cup {e[2][1] : e \in {x \in DOMAIN adj : x[1][2] = t}}) < 2}

SmallSnapshotsGiveZero ==
    /\ ~out.raised
    /\ \A t \in SmallSnapshots :
          /\ t \notin out.value.invoked
          /\ \E i \in 1..Len(out.value.series) : out.value.series[i] = <<t, 0>>

C12_SmallSnapshotsGiveZero ==
    out.op = "global_reaching_timeseries" => SmallSnapshotsGiveZero

\* the same for the module tempest/basic_temporal_analysis.py alone
TempestSmallSnapshotsGiveZero ==
    (out.op = "global_reaching_timeseries" /\ out.arg.module = "tempest") =>
        SmallSnapshotsGiveZero

TempestSmallSnapshotsWitness ==
    /\ out.op = "global_reaching_timeseries"
    /\ out.arg.module = "tempest"
    /\ ~out.raised
    /\ \E t \in SmallSnapshots : \E e \in DOMAIN adj : e[1][2] = t
    /\ out.value.invoked # {}

\* C13: snapshots_outbound yields one (t, S_t) pair per distinct time unit that
\* has outbound structure: every time unit at which some facility has an outgoing
\* temporal edge is yielded, and no pair is yielded for a time unit at which no
\* facility has an outgoing temporal edge.
OutboundTimes == {e[1][2] : e \in DOMAIN adj}

NodeTimes == {n[2] : n \in nodes}

C13_YieldsOutboundTimesOnly ==
    (out.op = "snapshots_outbound" /\ ~out.raised) =>
        DOMAIN out.value = OutboundTimes

\* C13, as the code has it: one pair per time unit registered in G.snapshots,
\* which holds every time unit at which a node exists; every time unit with an
\* outgoing edge is among them, and a time unit without outgoing edges is yielded
\* with an empty S_t.
C13_YieldsRegisteredTimes ==
    (out.op = "snapshots_outbound" /\ ~out.raised) =>
        /\ NodeTimes \subseteq DOMAIN out.value
        /\ origin = "presence" => DOMAIN out.value = NodeTimes
        /\ \A t \in OutboundTimes :
              t \in DOMAIN out.value /\ DOMAIN out.value[t].edges # {}
        /\ \A t \in DOMAIN out.value :
              t \notin OutboundTimes => DOMAIN out.value[t].edges = {}

C13_Witness ==
    /\ out.op = "snapshots_outbound"
    /\ ~out.raised
    /\ origin = "presence"
    /\ \E t \in DOMAIN out.value : t \notin OutboundTimes
    /\ \E t \in DOMAIN out.value : t \in OutboundTimes

\* C14: to_static annotates every facility f with present = (number of time
\* units t at which (f,t) is a node) / (number of distinct time units at which
\* any node of the network exists); the value is greater than 0 and at most 1,
\* and it does not depend on the nodes_at_time / when_present queries made
\* before.
FacilityTimes(f) == {n[2] : n \in {x \in nodes : x[1] = f}}

PresenceFractions ==
    /\ \A f \in Facs : f \in DOMAIN out.value.present <=> FacilityTimes(f) # {}
    /\ \A f \in DOMAIN out.value.present :
          /\ out.value.present[f]
                = <<Cardinality(FacilityTimes(f)), Cardinality(NodeTimes)>>
          /\ 0 < out.value.present[f][1]
          /\ out.value.present[f][1] <= out.value.present[f][2]

C14_PresenceFraction ==
    (out.op = "to_static" /\ origin \in {"presence", "api"}) =>
        (~out.raised /\ PresenceFractions)

\* the same for the networks of from_presence alone, whose indices are plain dicts
PresenceFractionAfterBuilder ==
    (out.op = "to_static" /\ origin = "presence") =>
        (~out.raised /\ PresenceFractions)

PresenceFractionAfterBuilderWitness ==
    /\ out.op = "to_static"
    /\ origin = "presence"
    /\ ~out.raised
    /\ \E f \in DOMAIN out.value.present :
          out.value.present[f][1] < out.value.present[f][2]

\* C18: nodes_at_time(t) and when_present(f) are read-only: for any argument,
\* a time or facility without presence included, the call leaves the graph and
\* both indices unchanged, so snapshots_outbound and to_static give the same
\* before and after it.
IsQuery == out'.op \in {"nodes_at_time", "when_present"}

QueryLeavesNetwork ==
    /\ UNCHANGED <<nodes, adj, snapshots, present>>
    /\ SnapshotsOutboundOut("weight", "add")' = SnapshotsOutboundOut("weight", "add")
    /\ ToStaticOut' = ToStaticOut

C18_QueriesReadOnly == [][IsQuery => QueryLeavesNetwork]_vars

\* the same for the networks of from_presence alone, whose indices are plain dicts
QueriesReadOnlyAfterBuilder ==
    [][(IsQuery /\ origin = "presence") => QueryLeavesNetwork]_vars

\* C15: from_presence called with a discretisation step <= 0 fails with an
\* error and returns no network.
C15_BadStepRejected ==
    (out.op = "from_presence" /\ disc <= 0) => (out.raised /\ origin = "new")

\* C16: clean_erroneous_records either raises or removes the offending data:
\* with delete_errors False it raises DataHandlingError whenever some row has
\* Adate > Ddate, and for every value of delete_errors, whenever it returns the
\* returned table has no row with Adate > Ddate.
C16_ErroneousRaisedOrRemoved ==
    out.op = "clean_erroneous_records" =>
        /\ (out.arg.flag = "False" /\ \E r \in Rows(out.arg.table) : IsErroneous(r))
              => (out.raised /\ out.value = "DataHandlingError")
        /\ ~out.raised =>
              \A i \in 1..Len(out.value) :
                  out.value[i].Ddate = NullTime \/ out.value[i].Adate <= out.value[i].Ddate

\* C17: clean_missing_values either raises or removes the offending data: with
\* delete_missing False it raises DataHandlingError whenever some row has a
\* missing value, with True or 'record' it deletes the rows with missing values,
\* with 'subject' it deletes all rows of every subject that has such a row;
\* whenever it returns, the returned table has no row the function counts as
\* missing (a null in any column, or a blank subject or facility identifier).
MissingRow(r) ==
    \/ r.sID \in {"null", " "}
    \/ r.fID \in {"null", " "}
    \/ r.Ddate = NullTime

MissingSubjects(tbl) == {tbl[i].sID : i \in {j \in 1..Len(tbl) : MissingRow(tbl[j])}}

C17_MissingRaisedOrRemoved ==
    (out.op = "clean_missing_values" /\ \E r \in Rows(out.arg.table) : MissingRow(r)) =>
        LET tbl == out.arg.table
        IN  /\ out.arg.flag = "False" => (out.raised /\ out.value = "DataHandlingError")
            /\ out.arg.flag \in {"True", "record"} =>
                  /\ ~out.raised
                  /\ out.value = FilterRows(tbl, {r \in Rows(tbl) : ~MissingRow(r)})
            /\ out.arg.flag = "subject" =>
                  /\ ~out.raised
                  /\ out.value = FilterRows(tbl,
                                    {r \in Rows(tbl) : r.sID \notin MissingSubjects(tbl)})
            /\ ~out.raised => \A i \in 1..Len(out.value) : ~MissingRow(out.value[i])

\* C19: every edge ((f,t) -> (f',t')) of a network built by from_presence goes
\* forward or stays level in time and stays inside the return window:
\* 0 <= t' - t < return_window.
C19_EdgesForwardWithinWindow ==
    origin = "presence" =>
        \A e \in DOMAIN adj :
            /\ 0 <= e[2][2] - e[1][2]
            /\ e[2][2] - e[1][2] < window

C19_Witness ==
    /\ origin = "presence"
    /\ window = 1
    /\ \E e \in DOMAIN adj : e[1][1] # e[2][1] /\ e[2][2] - e[1][2] = 0
    /\ \E i \in 2..Len(presence) :
          /\ presence[i].sID = presence[i - 1].sID
          /\ presence[i].present - presence[i - 1].present = 1

====
